---- MODULE Spec2Model ----
(***************************************************************************)
(* Model of PythonApplication1.py: the five graph searches (bfs, dfs,      *)
(* iddfs, best_first_search, a_star) over a graph built by                 *)
(* load_adjacencies and a coordinate map built by load_cities.             *)
(*                                                                         *)
(* City names are modelled by the integers 1..NumNodes; the order of the   *)
(* integers is the order Python gives the names (string comparison), which *)
(* matters where heapq compares tuples.  One search call is one behaviour: *)
(* the call action builds the frontier, every loop action is one iteration *)
(* of the function's while/for loop.                                       *)
(***************************************************************************)
EXTENDS Integers, Sequences, FiniteSets, TLC

VARIABLES graph,      \* dict city -> list of neighbours (load_adjacencies)
          cities,     \* dict city -> (lat, lon)          (load_cities)
          alg,        \* which search main() dispatched to
          start, goal,
          max_depth,  \* iddfs's max_depth argument
          pc,         \* "call" | "loop" | "done"
          frontier,   \* queue (bfs), stack (dfs), pq (best_first), open_set (a_star)
          visited,
          g_score,
          depth,      \* iddfs's loop variable
          outcome,    \* "running" | "path" | "none" | "error"
          result      \* the returned path; None while running or not found

vars == <<graph, cities, alg, start, goal, max_depth, pc, frontier, visited,
          g_score, depth, outcome, result>>

-----------------------------------------------------------------------------
(* Bounds of the model *)

NumNodes == 3
MaxEdges == 3
MaxDepthArg == 3

(* def iddfs(graph, start, goal, max_depth=20) *)
DefaultMaxDepth == 20

Nodes == 1..NumNodes

(* The rows of adjacencies.txt: a row "a b" and a row "b a" have the same    *)
(* effect on the lists, so rows are drawn with a <= b.  a = b is a self-loop *)
(* row, a repeated row a duplicate edge.                                   *)
EdgeRows == {r \in Nodes \X Nodes : r[1] <= r[2]}
EdgeFiles == UNION {[1..k -> EdgeRows] : k \in 0..MaxEdges}

(* Coordinates are drawn from the corners of a 3-4-5 triangle, so that every *)
(* straight-line distance is an integer and ((..) ** 0.5) is exact.          *)
Coords == {<<0, 0>>, <<3, 0>>, <<3, 4>>}
CityMaps == UNION {[S -> Coords] : S \in SUBSET Nodes}

None == <<>>

-----------------------------------------------------------------------------
(* load_adjacencies *)

setdefault_append(g, k, v) ==
    IF k \in DOMAIN g THEN [g EXCEPT ![k] = Append(@, v)]
                      ELSE g @@ (k :> <<v>>)

RECURSIVE load_adjacencies_rows(_, _, _)
load_adjacencies_rows(rows, i, g) ==
    IF i > Len(rows) THEN g
    ELSE load_adjacencies_rows(rows, i + 1,
            setdefault_append(setdefault_append(g, rows[i][1], rows[i][2]),
                              rows[i][2], rows[i][1]))

load_adjacencies(rows) == load_adjacencies_rows(rows, 1, <<>>)

(* Mutant: iterating the dict itself, `for neighbor in graph`, yields every  *)
(* key of the graph whatever the city.                                       *)
IsKey(city) == city \in DOMAIN graph
graph_get_keys(city) == SelectSeq([i \in 1..NumNodes |-> i], IsKey)

(* graph.get(city, []) *)
graph_get(city) == IF city \in DOMAIN graph THEN graph[city] ELSE <<>>

-----------------------------------------------------------------------------
(* heuristic: cities[city] and cities[goal] raise KeyError when the entry is *)
(* missing; the searches do not catch it.                                  *)

KeyError == <<>>

(* Mutant: cities.get(city, (0, 0)), a missing entry read as the origin. *)
cities_lookup_default(city) ==
    IF city \in DOMAIN cities THEN cities[city] ELSE <<0, 0>>

cities_lookup(city) == IF city \in DOMAIN cities THEN cities[city] ELSE KeyError

HasCoord(city) == cities_lookup(city) # KeyError /\ cities_lookup(goal) # KeyError

Sqrt(n) == CHOOSE r \in 0..n : r * r = n

distance(p, q) ==
    Sqrt((p[1] - q[1]) * (p[1] - q[1]) + (p[2] - q[2]) * (p[2] - q[2]))

heuristic(city) == distance(cities_lookup(city), cities_lookup(goal))

-----------------------------------------------------------------------------
(* heapq over tuples: the model keeps the items of the heap in the order    *)
(* they were pushed; heappop takes the least item under Python's tuple       *)
(* comparison (equal tuples are the same tuple, so which of them leaves is   *)
(* immaterial).                                                              *)

RECURSIVE ListLess(_, _)
ListLess(a, b) ==
    IF a = <<>> THEN b # <<>>
    ELSE IF b = <<>> THEN FALSE
    ELSE IF Head(a) = Head(b) THEN ListLess(Tail(a), Tail(b))
    ELSE Head(a) < Head(b)

TupleLess(a, b) ==
    \/ a.prio < b.prio
    \/ /\ a.prio = b.prio
       /\ \/ a.city < b.city
          \/ /\ a.city = b.city
             /\ \/ ListLess(a.path, b.path)
                \/ /\ a.path = b.path
                   /\ "cost" \in DOMAIN a
                   /\ a.cost < b.cost

Least(heap) == CHOOSE i \in 1..Len(heap) :
                  \A j \in 1..Len(heap) :
                     ~TupleLess(heap[j], heap[i]) /\ (heap[j] = heap[i] => i <= j)

heappop(heap) ==
    [item |-> heap[Least(heap)],
     rest |-> [k \in 1..(Len(heap) - 1) |->
                  IF k < Least(heap) THEN heap[k] ELSE heap[k + 1]]]

heappush(heap, item) == Append(heap, item)

-----------------------------------------------------------------------------
(* Before a search is invoked nothing is built.  max_depth is an argument of *)
(* iddfs only; cities of best_first_search and a_star only.                  *)

Algorithms == {"bfs", "dfs", "iddfs", "best_first_search", "a_star"}
Heuristic == {"best_first_search", "a_star"}

(* Before the call no endpoint is chosen: a name that is no city. *)
NoCity == NumNodes + 1

Init ==
    /\ graph = <<>>
    /\ cities = <<>>
    /\ alg = "none"
    /\ start = NoCity
    /\ goal = NoCity
    /\ max_depth = DefaultMaxDepth
    /\ pc = "main"
    /\ frontier = <<>>
    /\ visited = {}
    /\ g_score = <<>>
    /\ depth = 0
    /\ outcome = "running"
    /\ result = None

SearchState == <<frontier, visited, g_score, depth, outcome, result>>

(* graph = load_adjacencies("adjacencies.txt"): the graph is built once,    *)
(* before any search.                                                        *)
LoadGraph ==
    /\ pc = "main"
    /\ \E rows \in EdgeFiles : graph' = load_adjacencies(rows)
    /\ pc' = "loaded"
    /\ UNCHANGED <<cities, alg, start, goal, max_depth, SearchState>>

(* result = search_function(args): the caller passes the graph, the two     *)
(* endpoints and, to the heuristic searches, a coordinate map.               *)
measure_time ==
    /\ pc = "loaded"
    /\ alg' \in Algorithms
    /\ start' \in Nodes
    /\ goal' \in Nodes
    /\ IF alg' \in Heuristic THEN cities' \in CityMaps ELSE cities' = <<>>
    /\ IF alg' = "iddfs" THEN max_depth' \in (0..MaxDepthArg) \cup {DefaultMaxDepth}
                         ELSE max_depth' = DefaultMaxDepth
    /\ pc' = "call"
    /\ UNCHANGED <<graph, SearchState>>

(* The calls of the termination check: bfs, dfs, best_first_search and      *)
(* a_star, with every city located, each at its own corner.                  *)
Corner(n) == IF n % 3 = 1 THEN <<0, 0>> ELSE IF n % 3 = 2 THEN <<3, 0>> ELSE <<3, 4>>

measure_time_located ==
    /\ pc = "loaded"
    /\ alg' \in Algorithms \ {"iddfs"}
    /\ start' \in Nodes
    /\ goal' \in Nodes
    /\ IF alg' \in Heuristic THEN cities' = [n \in Nodes |-> Corner(n)]
                             ELSE cities' = <<>>
    /\ max_depth' = DefaultMaxDepth
    /\ pc' = "call"
    /\ UNCHANGED <<graph, SearchState>>

(* return path / return None / an uncaught KeyError *)
Return(path) ==
    /\ pc' = "done"
    /\ outcome' = IF path = None THEN "none" ELSE "path"
    /\ result' = path

Raise ==
    /\ pc' = "done"
    /\ outcome' = "error"
    /\ result' = None

Continue ==
    /\ pc' = "loop"
    /\ UNCHANGED <<outcome, result>>

Inputs == <<graph, cities, alg, start, goal, max_depth>>

-----------------------------------------------------------------------------
(* bfs and dfs *)

(* Mutant: the frontier seeded with (start, []). *)
first_path_empty(s) == <<>>

first_path(s) == <<s>>

(* Mutant: queue.pop(), the last item instead of the first. *)
popleft_last(queue) == [item |-> queue[Len(queue)],
                        rest |-> SubSeq(queue, 1, Len(queue) - 1)]

(* Mutant: queue[0], the first item read and left in the queue. *)
popleft_peek(queue) == [item |-> Head(queue), rest |-> queue]

popleft(queue) == [item |-> Head(queue), rest |-> Tail(queue)]

pop(stack) == [item |-> stack[Len(stack)],
               rest |-> SubSeq(stack, 1, Len(stack) - 1)]

not_visited(current) == current \notin visited

(* Mutant: path + [current] instead of path + [neighbor]. *)
append_neighbors_current(pending, current, path) ==
    LET nbrs == graph_get(current)
    IN  pending \o [i \in 1..Len(nbrs) |->
                       [city |-> nbrs[i], path |-> Append(path, current)]]

(* Mutant: `for neighbor in graph`, every key of the graph is appended. *)
append_neighbors_keys(pending, current, path) ==
    LET nbrs == SelectSeq([i \in 1..NumNodes |-> i], IsKey)
    IN  pending \o [i \in 1..Len(nbrs) |->
                       [city |-> nbrs[i], path |-> Append(path, nbrs[i])]]

(* for neighbor in graph.get(current, []): append((neighbor, path + [neighbor])) *)
append_neighbors(pending, current, path) ==
    LET nbrs == graph_get(current)
    IN  pending \o [i \in 1..Len(nbrs) |->
                       [city |-> nbrs[i], path |-> Append(path, nbrs[i])]]

bfs_call ==
    /\ pc = "call" /\ alg = "bfs"
    /\ frontier' = <<[city |-> start, path |-> first_path(start)]>>
    /\ visited' = {}
    /\ Continue
    /\ UNCHANGED <<Inputs, g_score, depth>>

bfs_loop ==
    /\ pc = "loop" /\ alg = "bfs"
    /\ IF frontier = <<>>
       THEN Return(None) /\ UNCHANGED <<frontier, visited>>
       ELSE LET p == popleft(frontier)
                current == p.item.city
                path == p.item.path
            IN  IF current = goal
                THEN Return(path) /\ frontier' = p.rest /\ UNCHANGED visited
                ELSE /\ Continue
                     /\ IF not_visited(current)
                        THEN /\ visited' = visited \cup {current}
                             /\ frontier' = append_neighbors(p.rest, current, path)
                        ELSE /\ frontier' = p.rest
                             /\ UNCHANGED visited
    /\ UNCHANGED <<Inputs, g_score, depth>>

dfs_call ==
    /\ pc = "call" /\ alg = "dfs"
    /\ frontier' = <<[city |-> start, path |-> first_path(start)]>>
    /\ visited' = {}
    /\ Continue
    /\ UNCHANGED <<Inputs, g_score, depth>>

dfs_loop ==
    /\ pc = "loop" /\ alg = "dfs"
    /\ IF frontier = <<>>
       THEN Return(None) /\ UNCHANGED <<frontier, visited>>
       ELSE LET p == pop(frontier)
                current == p.item.city
                path == p.item.path
            IN  IF current = goal
                THEN Return(path) /\ frontier' = p.rest /\ UNCHANGED visited
                ELSE /\ Continue
                     /\ IF not_visited(current)
                        THEN /\ visited' = visited \cup {current}
                             /\ frontier' = append_neighbors(p.rest, current, path)
                        ELSE /\ frontier' = p.rest
                             /\ UNCHANGED visited
    /\ UNCHANGED <<Inputs, g_score, depth>>

-----------------------------------------------------------------------------
(* iddfs: dls is the nested recursive function; `if new_path:` and           *)
(* `if result:` test truthiness, and a path is never empty, so None is the   *)
(* empty sequence.                                                           *)

InPath(x, path) == \E i \in 1..Len(path) : path[i] = x

depth_exhausted(d) == d = 0

RECURSIVE dls(_, _, _)
RECURSIVE dls_neighbors(_, _, _, _)

dls(node, path, d) ==
    IF depth_exhausted(d) THEN None
    ELSE IF node = goal THEN path
    ELSE dls_neighbors(graph_get(node), 1, path, d)

dls_neighbors(nbrs, i, path, d) ==
    IF i > Len(nbrs) THEN None
    ELSE IF ~InPath(nbrs[i], path)
         THEN LET new_path == dls(nbrs[i], Append(path, nbrs[i]), d - 1)
              IN  IF new_path # None THEN new_path
                  ELSE dls_neighbors(nbrs, i + 1, path, d)
         ELSE dls_neighbors(nbrs, i + 1, path, d)

(* Mutant: range(20), the argument ignored. *)
depth_range_default(md) == 0..(DefaultMaxDepth - 1)

(* range(max_depth) *)
depth_range(md) == 0..(md - 1)

iddfs_call ==
    /\ pc = "call" /\ alg = "iddfs"
    /\ depth' = 0
    /\ Continue
    /\ UNCHANGED <<Inputs, frontier, visited, g_score>>

iddfs_loop ==
    /\ pc = "loop" /\ alg = "iddfs"
    /\ IF depth \notin depth_range(max_depth)
       THEN Return(None) /\ UNCHANGED depth
       ELSE LET r == dls(start, first_path(start), depth)
            IN  IF r # None
                THEN Return(r) /\ UNCHANGED depth
                ELSE Continue /\ depth' = depth + 1
    /\ UNCHANGED <<Inputs, frontier, visited, g_score>>

-----------------------------------------------------------------------------
(* best_first_search *)

AllHaveCoord(nbrs) == \A i \in 1..Len(nbrs) : HasCoord(nbrs[i])

(* for neighbor in ...: heappush(pq, (heuristic(neighbor), neighbor,        *)
(*                                    path + [neighbor]))                    *)
RECURSIVE push_neighbors(_, _, _, _)
push_neighbors(pq, nbrs, i, path) ==
    IF i > Len(nbrs) THEN pq
    ELSE push_neighbors(
            heappush(pq, [prio |-> heuristic(nbrs[i]), city |-> nbrs[i],
                          path |-> Append(path, nbrs[i])]),
            nbrs, i + 1, path)

best_first_search_call ==
    /\ pc = "call" /\ alg = "best_first_search"
    /\ IF HasCoord(start)
       THEN /\ frontier' = <<[prio |-> heuristic(start), city |-> start,
                              path |-> first_path(start)]>>
            /\ Continue
       ELSE /\ Raise
            /\ UNCHANGED frontier
    /\ visited' = {}
    /\ UNCHANGED <<Inputs, g_score, depth>>

best_first_search_loop ==
    /\ pc = "loop" /\ alg = "best_first_search"
    /\ IF frontier = <<>>
       THEN Return(None) /\ UNCHANGED <<frontier, visited>>
       ELSE LET p == heappop(frontier)
                current == p.item.city
                path == p.item.path
            IN  IF current = goal
                THEN Return(path) /\ frontier' = p.rest /\ UNCHANGED visited
                ELSE IF not_visited(current)
                THEN /\ visited' = visited \cup {current}
                     /\ IF AllHaveCoord(graph_get(current))
                        THEN /\ frontier' = push_neighbors(p.rest, graph_get(current),
                                                           1, path)
                             /\ Continue
                        ELSE /\ Raise
                             /\ frontier' = p.rest
                ELSE /\ frontier' = p.rest
                     /\ Continue
                     /\ UNCHANGED visited
    /\ UNCHANGED <<Inputs, g_score, depth>>

-----------------------------------------------------------------------------
(* a_star *)

(* Mutant: every step costs 1. *)
new_cost_unit(cost, current, neighbor) == cost + 1

(* new_cost = cost + heuristic(neighbor) *)
new_cost(cost, current, neighbor) == cost + heuristic(neighbor)

(* neighbor not in g_score or new_cost < g_score[neighbor] *)
improves(gs, neighbor, nc) == neighbor \notin DOMAIN gs \/ nc < gs[neighbor]

(* (new_cost + heuristic(neighbor), neighbor, path + [neighbor], new_cost) *)
open_item(nc, neighbor, path) ==
    [prio |-> nc + heuristic(neighbor), city |-> neighbor,
     path |-> Append(path, neighbor), cost |-> nc]

(* The for loop over the neighbours, from the i-th on: gs is g_score and    *)
(* open the open_set at that point.                                          *)
RECURSIVE relax_neighbors(_, _, _, _, _, _, _)
relax_neighbors(nbrs, i, current, path, cost, gs, open) ==
    IF i > Len(nbrs) THEN [g_score |-> gs, open_set |-> open]
    ELSE LET neighbor == nbrs[i]
             nc == new_cost(cost, current, neighbor)
         IN  IF improves(gs, neighbor, nc)
             THEN relax_neighbors(nbrs, i + 1, current, path, cost,
                     (neighbor :> nc) @@ gs,
                     heappush(open, open_item(nc, neighbor, path)))
             ELSE relax_neighbors(nbrs, i + 1, current, path, cost, gs, open)

a_star_call ==
    /\ pc = "call" /\ alg = "a_star"
    /\ frontier' = <<[prio |-> 0, city |-> start, path |-> first_path(start),
                      cost |-> 0]>>
    /\ g_score' = (start :> 0)
    /\ visited' = {}
    /\ Continue
    /\ UNCHANGED <<Inputs, depth>>

a_star_loop ==
    /\ pc = "loop" /\ alg = "a_star"
    /\ IF frontier = <<>>
       THEN Return(None) /\ UNCHANGED <<frontier, visited, g_score>>
       ELSE LET p == heappop(frontier)
                current == p.item.city
                path == p.item.path
                cost == p.item.cost
            IN  IF current = goal
                THEN Return(path) /\ frontier' = p.rest
                     /\ UNCHANGED <<visited, g_score>>
                ELSE IF not_visited(current)
                THEN /\ visited' = visited \cup {current}
                     /\ IF AllHaveCoord(graph_get(current))
                        THEN LET r == relax_neighbors(graph_get(current), 1, current,
                                                      path, cost, g_score, p.rest)
                             IN  /\ frontier' = r.open_set
                                 /\ g_score' = r.g_score
                                 /\ Continue
                        ELSE /\ Raise
                             /\ frontier' = p.rest
                             /\ UNCHANGED g_score
                ELSE /\ frontier' = p.rest
                     /\ Continue
                     /\ UNCHANGED <<visited, g_score>>
    /\ UNCHANGED <<Inputs, depth>>

-----------------------------------------------------------------------------

Next ==
    \/ LoadGraph
    \/ measure_time
    \/ bfs_call \/ bfs_loop
    \/ dfs_call \/ dfs_loop
    \/ iddfs_call \/ iddfs_loop
    \/ best_first_search_call \/ best_first_search_loop
    \/ a_star_call \/ a_star_loop

Spec == Init /\ [][Next]_vars

(* A search call runs to completion: single-threaded, no suspension. *)
LiveNext ==
    \/ LoadGraph
    \/ measure_time_located
    \/ bfs_call \/ bfs_loop
    \/ dfs_call \/ dfs_loop
    \/ best_first_search_call \/ best_first_search_loop
    \/ a_star_call \/ a_star_loop

LiveSpec == Init /\ [][LiveNext]_vars /\ WF_vars(LiveNext)

-----------------------------------------------------------------------------
(* Reference notions the properties are stated with, computed from the graph *)
(* and the coordinate map alone.                                             *)

IsNeighbor(u, v) == u \in DOMAIN graph /\ \E i \in 1..Len(graph[u]) : graph[u][i] = v

IsRoute(p) ==
    /\ p[1] = start
    /\ p[Len(p)] = goal
    /\ \A i \in 1..(Len(p) - 1) : IsNeighbor(p[i], p[i + 1])

NoRepeat(p) == \A i, j \in 1..Len(p) : p[i] = p[j] => i = j

(* Brute force: every route of at most NumNodes cities; a shortest route    *)
(* repeats no city, so it is among them.                                     *)
Routes == {p \in UNION {[1..k -> Nodes] : k \in 1..NumNodes} : IsRoute(p)}

Reachable == Routes # {}

ShortestEdges == CHOOSE n \in 0..NumNodes :
                    /\ \E p \in Routes : Len(p) - 1 = n
                    /\ \A p \in Routes : Len(p) - 1 >= n

AllCoordinates == Nodes \subseteq DOMAIN cities

RefDistance(a, b) == distance(cities[a], cities[b])

Done == pc = "done"

-----------------------------------------------------------------------------
(* C1: a path returned by any of the five searches begins with start, ends  *)
(* with goal, follows an edge of the graph at every step and repeats no     *)
(* city.                                                                     *)
C1_ReturnedPathIsSimpleRoute ==
    outcome = "path" => (result # <<>> /\ IsRoute(result) /\ NoRepeat(result))

(* a three-city path returned on a graph with a self-loop at start *)
C1_Witness ==
    /\ outcome = "path"
    /\ Len(result) = 3
    /\ IsNeighbor(start, start)
    /\ alg \in {"dfs", "a_star"}

(* C2: the path bfs returns has the least number of edges of all routes     *)
(* from start to goal.                                                       *)
C2_BfsShortest ==
    (Done /\ alg = "bfs" /\ outcome = "path") => Len(result) - 1 = ShortestEdges

(* bfs returns the one-edge path although a two-edge route exists too *)
C2_Witness ==
    /\ Done /\ alg = "bfs" /\ outcome = "path"
    /\ Len(result) = 2
    /\ \E p \in Routes : Len(p) = 3 /\ NoRepeat(p)

(* C3 as stated: with start = goal = n every variant (iddfs with its        *)
(* default max depth) returns [n].                                          *)
C3_Original ==
    (Done /\ start = goal /\ (alg = "iddfs" => max_depth = DefaultMaxDepth))
        => (outcome = "path" /\ result = <<start>>)

(* C3 amended: with start = goal = n every variant (iddfs with its default  *)
(* max depth) returns [n], best_first_search provided n has coordinates.    *)
C3_SameEndpoints ==
    (/\ Done /\ start = goal
     /\ (alg = "iddfs" => max_depth = DefaultMaxDepth)
     /\ (alg = "best_first_search" => start \in DOMAIN cities))
        => (outcome = "path" /\ result = <<start>>)

(* iddfs with the default depth, on a start that has neighbours *)
C3_Witness ==
    /\ Done /\ start = goal /\ alg = "iddfs" /\ max_depth = DefaultMaxDepth
    /\ start \in DOMAIN graph
    /\ result = <<start>>

(* C4: with coordinates for every city, bfs, dfs, best_first_search and     *)
(* a_star return, without an error, and return a path when goal is          *)
(* reachable from start.                                                     *)
C4_Pre ==
    /\ pc = "call"
    /\ alg \in {"bfs", "dfs", "best_first_search", "a_star"}
    /\ (alg \in Heuristic => AllCoordinates)

C4_ReturnsAndFindsReachable ==
    C4_Pre ~> (Done /\ outcome # "error" /\ (Reachable => outcome = "path"))

(* a_star returned a path on the triangle 1-2-3-1 *)
C4_Witness ==
    /\ Done /\ alg = "a_star" /\ AllCoordinates
    /\ \A u, v \in Nodes : u # v => IsNeighbor(u, v)
    /\ start # goal
    /\ outcome = "path"

(* C5: when goal is not reachable from start and every city has            *)
(* coordinates, every variant returns None and none ends in an error.       *)
C5_UnreachableIsNone ==
    (Done /\ ~Reachable /\ (alg \in Heuristic => AllCoordinates))
        => outcome = "none"

(* start's component has an edge, goal is outside it *)
C5_Witness ==
    /\ Done /\ ~Reachable /\ alg \in Heuristic /\ AllCoordinates
    /\ \E v \in Nodes : v # start /\ IsNeighbor(start, v)
    /\ goal \in DOMAIN graph
    /\ outcome = "none"

(* C6 as stated: when start or goal is not a key of the graph, the search    *)
(* returns None and raises no error, also when start and goal are the same   *)
(* absent city.                                                              *)
AbsentEndpoint == start \notin DOMAIN graph \/ goal \notin DOMAIN graph

C6_Original == (Done /\ AbsentEndpoint) => outcome = "none"

(* C6 amended: with coordinates for every city, when start or goal is not a  *)
(* key of the graph and start # goal the search returns None and raises no   *)
(* error; when start = goal is not a key it returns [start] (iddfs when      *)
(* max_depth >= 2).                                                          *)
C6_AbsentEndpoint ==
    (Done /\ AbsentEndpoint /\ (alg \in Heuristic => AllCoordinates))
        => IF start # goal THEN outcome = "none"
           ELSE (alg = "iddfs" => max_depth >= 2)
                    => (outcome = "path" /\ result = <<start>>)

(* a_star from a city with neighbours to a city the graph does not have *)
C6_Witness ==
    /\ Done /\ alg = "a_star" /\ AllCoordinates
    /\ start \in DOMAIN graph
    /\ goal \notin DOMAIN graph
    /\ outcome = "none"

(* C7 as stated: a heuristic search called with a coordinate map that lacks  *)
(* a city of the graph ends in the MissingCoordinate error.                  *)
C7_Original ==
    (Done /\ alg \in Heuristic /\ \E n \in DOMAIN graph : n \notin DOMAIN cities)
        => outcome = "error"

(* The heuristic is evaluated for start (best_first_search only) and for     *)
(* every neighbour of an expanded city, each time against the goal.          *)
Missing(city) == city \notin DOMAIN cities \/ goal \notin DOMAIN cities

EvaluatedMissing ==
    \/ alg = "best_first_search" /\ Missing(start)
    \/ \E u \in visited : \E v \in Nodes : IsNeighbor(u, v) /\ Missing(v)

(* C7 amended: a heuristic search ends in the MissingCoordinate error exactly *)
(* when it evaluates the heuristic of a city without coordinates, or of any   *)
(* city while the goal has none; a city whose heuristic is never evaluated    *)
(* may lack coordinates and the search still returns a path or None.          *)
C7_MissingCoordinate ==
    (Done /\ alg \in Heuristic) => (outcome = "error" <=> EvaluatedMissing)

(* a_star raises at its second expansion *)
C7_Witness ==
    /\ Done /\ alg = "a_star" /\ outcome = "error"
    /\ Cardinality(visited) >= 2

(* C8: when the shortest route from start to goal has more than max_depth    *)
(* edges, iddfs returns None.                                                *)
C8_BeyondMaxDepth ==
    (Done /\ alg = "iddfs" /\ Reachable /\ ShortestEdges > max_depth)
        => outcome = "none"

(* goal is two edges away, max_depth is 1 *)
C8_Witness ==
    /\ Done /\ alg = "iddfs" /\ Reachable
    /\ ShortestEdges = 2 /\ max_depth = 1
    /\ outcome = "none"

(* C9 as stated: when goal is reachable from start by a route of at most     *)
(* max_depth edges, iddfs returns a path.                                    *)
C9_Original ==
    (Done /\ alg = "iddfs" /\ Reachable /\ ShortestEdges <= max_depth)
        => outcome = "path"

(* C10: what an expansion of a_star pushes.  StepCost(current, neighbor) is  *)
(* what the expansion adds to the accumulated cost.                          *)
AStarExpands ==
    /\ pc = "loop" /\ alg = "a_star" /\ frontier # <<>>
    /\ heappop(frontier).item.city # goal
    /\ heappop(frontier).item.city \notin visited
    /\ heappop(frontier).item.city \in DOMAIN cities
    /\ pc' = "loop"

Count(e, s) == Cardinality({i \in 1..Len(s) : s[i] = e})

Pushed == {e \in {frontier'[i] : i \in 1..Len(frontier')} :
              Count(e, frontier') > Count(e, heappop(frontier).rest)}

RelaxationRule(StepCost(_, _)) ==
    LET cur == heappop(frontier).item
        Tentative(n) == cur.cost + StepCost(cur.city, n)
        Improves(n) == n \notin DOMAIN g_score \/ Tentative(n) < g_score[n]
    IN  /\ \A e \in Pushed :
              /\ IsNeighbor(cur.city, e.city)
              /\ e.cost = Tentative(e.city)
              /\ e.prio = e.cost + RefDistance(e.city, goal)
              /\ e.path = Append(cur.path, e.city)
              /\ Improves(e.city)
        /\ \A n \in Nodes :
              (IsNeighbor(cur.city, n) /\ Improves(n))
                  => (\E e \in Pushed : e.city = n) /\ g_score'[n] = Tentative(n)

ToNeighbor(current, neighbor) == RefDistance(current, neighbor)
ToGoal(current, neighbor) == RefDistance(neighbor, goal)

(* C10 as stated: the tentative cost of a neighbour is the cost of current   *)
(* plus the straight-line distance between current and the neighbour.        *)
C10_Original == [][AStarExpands => RelaxationRule(ToNeighbor)]_vars

(* C10 amended: the tentative cost of a neighbour is the cost of current     *)
(* plus heuristic(neighbor), the straight-line distance between the          *)
(* neighbour and the goal; the neighbour is pushed only if it has no         *)
(* g_score or the tentative cost is strictly lower, with priority tentative  *)
(* cost + heuristic(neighbor).                                               *)
C10_Relaxation == [][AStarExpands => RelaxationRule(ToGoal)]_vars

(* an item two expansions deep whose cost is the sum of the distances to the *)
(* goal and not the length of its path                                       *)
C10_Witness ==
    /\ pc = "loop" /\ alg = "a_star" /\ AllCoordinates
    /\ \E i \in 1..Len(frontier) :
          LET e == frontier[i]
          IN  /\ Len(e.path) = 3
              /\ e.cost = RefDistance(e.path[2], goal) + RefDistance(e.path[3], goal)
              /\ e.cost # RefDistance(e.path[1], e.path[2])
                            + RefDistance(e.path[2], e.path[3])

====
